---- MODULE Spec2Model ----
(***************************************************************************)
(* Model of libMySQLWrapper.c: the boolean codec (convertFromBool /        *)
(* convertToBool), the descriptor conversions (convert_to_MYSQL_BIND /     *)
(* convert_from_MYSQL_BIND), the three marshaling calls                    *)
(* (wrapper_mysql_stmt_bind_param / _bind_result / _fetch) and the two     *)
(* release calls, over an explicit heap so that every malloc/calloc and    *)
(* every free of the C code is a step of the model.                        *)
(*                                                                         *)
(* The native client library is the environment.  Only what the wrapper    *)
(* itself relies on is modelled: mysql_get_server_version returns the      *)
(* connection's version, mysql_stmt_bind_result on success retains a copy  *)
(* of the descriptor array it is handed (stmt->bind); for an absent        *)
(* is_null / error reference it either keeps the NULL and skips the store  *)
(* or points the reference at the descriptor's own is_null_value /         *)
(* error_value (both are modelled); mysql_stmt_fetch stores the row's      *)
(* null/truncation flags accordingly; and every native status is a         *)
(* nondeterministic input.  The caller follows the documented order,       *)
(* fetching and releasing the statement's binds only after a bind_result   *)
(* that succeeded.                                                         *)
(***************************************************************************)
EXTENDS Integers, Sequences, FiniteSets, TLC

VARIABLES
    pc,          \* position of the caller in the call sequence
    version,     \* mysql_get_server_version(mysql)
    numParams,   \* parameter count of the prepared statement
    numFields,   \* column count of the prepared statement
    paramBinds,  \* caller's WRAPPER_MYSQL_BIND array handed to bind_param
    resultBinds, \* caller's WRAPPER_MYSQL_BIND array handed to bind_result / fetch
    callerMem,   \* the caller-owned bool cells behind is_null / error references
    heap,        \* every block the wrapper malloc'ed / calloc'ed and returned holding
    badFrees,    \* free() calls on addresses that are not heap blocks
    stmtBind,    \* stmt->bind: the native library's retained MYSQL_BIND array
    bound,       \* TRUE once mysql_stmt_bind_result has succeeded
    allocRecord, \* the char ** returned by wrapper_mysql_stmt_bind_param
    ret,         \* what the last wrapper call returned to the caller
    nativeRet,   \* what the last native primitive returned to the wrapper
    nullDeref,   \* TRUE once convertToBool has been handed a NULL pointer
    boundAs,     \* the caller's array as it was when handed to bind_result
    orig,        \* conversion harness: the descriptor before conversion
    stable,      \* conversion harness: the WRAPPER_MYSQL_BIND being converted
    native,      \* conversion harness: the MYSQL_BIND produced by the forward conversion
    phys,        \* codec harness: the pointer convertFromBool returned
    decoded      \* codec harness: the bool convertToBool returned

vars == <<pc, version, numParams, numFields, paramBinds, resultBinds, callerMem,
          heap, badFrees, stmtBind, bound, allocRecord, ret, nativeRet,
          nullDeref, boundAs, orig, stable, native, phys, decoded>>

-----------------------------------------------------------------------------
(* Bounds and program constants *)

\* largest bindCount handed to bind_result / fetch, and to bind_param when
\* the parameter path is explored on its own
MaxBinds == 2

\* largest bindCount handed to bind_param in the full call sequence
MaxParams == 1

\* the version test of convertFromBool, convertToBool, convert_to_MYSQL_BIND
\* and wrapper_release_statement_binds: version < 80000
Cutover == 80000

\* server versions on both sides of the test: its two boundary values
Versions == {Cutover - 1, Cutover}

-----------------------------------------------------------------------------
(* Addresses.  A pointer is NULL, the address of a caller-owned bool cell,  *)
(* the address of a heap block, or an opaque address the wrapper only     *)
(* copies.                                                                 *)

NullPtr == [k |-> "null", i |-> 0, f |-> "none"]

CallerCell(i, f) == [k |-> "caller", i |-> i, f |-> f]

HeapPtr(n) == [k |-> "heap", i |-> n, f |-> "none"]

Opaque(i, f) == [k |-> "opaque", i |-> i, f |-> f]

CellFields == {"p.is_null", "p.error", "r.is_null", "r.error"}

CallerCells == {CallerCell(i, f) : i \in 1..MaxBinds, f \in CellFields}

-----------------------------------------------------------------------------
(* The heap: block n of the sequence is the n-th allocation that outlives  *)
(* the call that made it.  by is the call that made it, for the reference  *)
(* it was made for, and freedBy lists the calls that passed it to free.    *)

\* malloc(sizeof(char)): one byte of indeterminate content
MallocCell(h, op, for) ==
    Append(h, [kind |-> "cell", init |-> FALSE, val |-> 0, by |-> op, for |-> for,
               freedBy |-> <<>>])

\* calloc(allocCount, sizeof(char *)): the allocation record's own storage
CallocRecord(h, op) ==
    Append(h, [kind |-> "record", init |-> TRUE, val |-> 0, by |-> op, for |-> NullPtr,
               freedBy |-> <<>>])

\* *val = b
StoreByte(h, p, b) == [h EXCEPT ![p.i].init = TRUE, ![p.i].val = b]

\* free(p) called by op, on the memory m = [heap, caller, bad]: free(NULL)
\* does nothing, free of anything that is not a heap block is recorded
Free(m, p, op) ==
    IF p = NullPtr THEN m
    ELSE IF p.k = "heap"
         THEN [m EXCEPT !.heap[p.i].freedBy = Append(@, op)]
         ELSE [m EXCEPT !.bad = @ \cup {[by |-> op, addr |-> p]}]

\* whether reading *p yields a determinate value
Determinate(m, p) ==
    \/ p.k = "caller"
    \/ p.k = "heap" /\ m.heap[p.i].init

\* *(char *)p
LoadByte(m, p) ==
    IF p.k = "heap" THEN m.heap[p.i].val
    ELSE IF m.caller[p] THEN 1 ELSE 0

\* *(bool *)p
LoadBool(m, p) ==
    IF p.k = "heap" THEN m.heap[p.i].val # 0
    ELSE m.caller[p]

-----------------------------------------------------------------------------
(* The codec *)

\* convertFromBool with the two stores of the legacy branch exchanged
M_convertFromBool_Inverted(m, ver, value, op) ==
    IF value = NullPtr
    THEN [ptr |-> NullPtr, m |-> m]
    ELSE LET h1  == MallocCell(m.heap, op, value)
             val == HeapPtr(Len(h1))
         IN  IF ver < Cutover
             THEN [ptr |-> val,
                   m   |-> [m EXCEPT !.heap =
                               StoreByte(h1, val, IF m.caller[value] = FALSE THEN 1 ELSE 0)]]
             ELSE [ptr |-> value, m |-> [m EXCEPT !.heap = h1]]

\* convertFromBool returning val, still NULL, past the cutover
M_convertFromBool_NullPastCutover(m, ver, value, op) ==
    IF value = NullPtr
    THEN [ptr |-> NullPtr, m |-> m]
    ELSE IF ver < Cutover
         THEN LET h1  == MallocCell(m.heap, op, value)
                  val == HeapPtr(Len(h1))
              IN  [ptr |-> val,
                   m   |-> [m EXCEPT !.heap =
                               StoreByte(h1, val, IF m.caller[value] = FALSE THEN 0 ELSE 1)]]
         ELSE [ptr |-> NullPtr, m |-> m]

\* convertFromBool(mysql, value), called on behalf of op.  Returns the pointer
\* and the memory after the call.
convertFromBool(m, ver, value, op) ==
    IF value = NullPtr
    THEN [ptr |-> NullPtr, m |-> m]
    ELSE LET h1  == MallocCell(m.heap, op, value)
             val == HeapPtr(Len(h1))
         IN  IF ver < Cutover
             THEN [ptr |-> val,
                   m   |-> [m EXCEPT !.heap =
                               StoreByte(h1, val, IF m.caller[value] = FALSE THEN 0 ELSE 1)]]
             ELSE [ptr |-> value, m |-> [m EXCEPT !.heap = h1]]

\* convertToBool testing the legacy byte against 0
M_convertToBool_LegacyZero(m, ver, value, u) ==
    IF ~Determinate(m, value) THEN u
    ELSE IF ver < Cutover
         THEN (IF LoadByte(m, value) = 0 THEN TRUE ELSE FALSE)
         ELSE (IF LoadBool(m, value) = TRUE THEN TRUE ELSE FALSE)

\* convertToBool(mysql, value).  u is the outcome when value cannot be read
\* (NULL, or a byte never written).
convertToBool(m, ver, value, u) ==
    IF ~Determinate(m, value) THEN u
    ELSE IF ver < Cutover
         THEN (IF LoadByte(m, value) = 1 THEN TRUE ELSE FALSE)
         ELSE (IF LoadBool(m, value) = TRUE THEN TRUE ELSE FALSE)

-----------------------------------------------------------------------------
(* Descriptors *)

\* a calloc'ed MYSQL_BIND
ZeroBind ==
    [length |-> NullPtr, is_null |-> NullPtr, buffer |-> NullPtr, error |-> NullPtr,
     row_ptr |-> NullPtr, store_param_func |-> NullPtr, fetch_result |-> NullPtr,
     skip_result |-> NullPtr, buffer_length |-> 0, offset |-> 0, length_value |-> 0,
     param_number |-> 0, pack_length |-> 0, buffer_type |-> 0, error_value |-> FALSE,
     is_unsigned |-> FALSE, long_data_used |-> FALSE, is_null_value |-> FALSE,
     extension |-> NullPtr]

\* the char **allocPointers argument: NULL, or an array of slots
NoRecord == [present |-> FALSE, at |-> NullPtr, slots |-> <<>>]

\* convert_to_MYSQL_BIND(mysql, wrapper, newBind, allocPointers, paramIndex),
\* called on behalf of op.  Slot paramIndex*2 of the C array is slot
\* paramIndex*2 + 1 of the sequence.  Returns the native descriptor, the
\* memory and the allocation record after the call.
convert_to_MYSQL_BIND(m, ver, wrapper, newBind, allocPointers, paramIndex, op) ==
    LET n  == convertFromBool(m, ver, wrapper.is_null, op)
        e  == convertFromBool(n.m, ver, wrapper.error, op)
        al == IF ver < Cutover /\ allocPointers.present
              THEN [allocPointers EXCEPT !.slots[(paramIndex * 2) + 1] = n.ptr,
                                         !.slots[(paramIndex * 2) + 2] = e.ptr]
              ELSE allocPointers
    IN  [bind |-> [newBind EXCEPT
                     !.is_null          = n.ptr,
                     !.error            = e.ptr,
                     !.length           = wrapper.length,
                     !.buffer           = wrapper.buffer,
                     !.row_ptr          = wrapper.row_ptr,
                     !.store_param_func = NullPtr,
                     !.fetch_result     = NullPtr,
                     !.skip_result      = NullPtr,
                     !.buffer_length    = wrapper.buffer_length,
                     !.offset           = wrapper.offset,
                     !.length_value     = wrapper.length_value,
                     !.param_number     = wrapper.param_number,
                     !.pack_length      = wrapper.pack_length,
                     !.buffer_type      = wrapper.buffer_type,
                     !.error_value      = wrapper.error_value,
                     !.is_unsigned      = wrapper.is_unsigned,
                     !.long_data_used   = wrapper.long_data_used,
                     !.is_null_value    = wrapper.is_null_value,
                     !.extension        = wrapper.extension],
         m     |-> e.m,
         alloc |-> al]

\* convert_from_MYSQL_BIND copying buffer_length into offset as well
M_convert_from_OffsetFromLength(m, ver, bind, wrapper, u) ==
    LET m1 == IF wrapper.is_null # NullPtr
              THEN [m EXCEPT !.caller[wrapper.is_null] =
                                convertToBool(m, ver, bind.is_null, u)]
              ELSE m
        m2 == IF wrapper.error # NullPtr
              THEN [m1 EXCEPT !.caller[wrapper.error] =
                                convertToBool(m1, ver, bind.error, u)]
              ELSE m1
    IN  [wrapper |-> [wrapper EXCEPT
                        !.length         = bind.length,
                        !.buffer         = bind.buffer,
                        !.row_ptr        = bind.row_ptr,
                        !.buffer_length  = bind.buffer_length,
                        !.offset         = bind.buffer_length,
                        !.length_value   = bind.length_value,
                        !.param_number   = bind.param_number,
                        !.pack_length    = bind.pack_length,
                        !.buffer_type    = bind.buffer_type,
                        !.error_value    = bind.error_value,
                        !.is_unsigned    = bind.is_unsigned,
                        !.long_data_used = bind.long_data_used,
                        !.is_null_value  = bind.is_null_value,
                        !.extension      = bind.extension],
         m     |-> m2,
         null  |-> \/ wrapper.is_null # NullPtr /\ bind.is_null = NullPtr
                   \/ wrapper.error # NullPtr /\ bind.error = NullPtr,
         undef |-> \/ wrapper.is_null # NullPtr /\ ~Determinate(m, bind.is_null)
                   \/ wrapper.error # NullPtr /\ ~Determinate(m1, bind.error)]

\* convert_from_MYSQL_BIND(mysql, bind, wrapper).  Returns the stable
\* descriptor and the memory after the call; null is TRUE when convertToBool
\* was handed NULL, undef when it was handed a pointer it cannot read.
convert_from_MYSQL_BIND(m, ver, bind, wrapper, u) ==
    LET m1 == IF wrapper.is_null # NullPtr
              THEN [m EXCEPT !.caller[wrapper.is_null] =
                                convertToBool(m, ver, bind.is_null, u)]
              ELSE m
        m2 == IF wrapper.error # NullPtr
              THEN [m1 EXCEPT !.caller[wrapper.error] =
                                convertToBool(m1, ver, bind.error, u)]
              ELSE m1
    IN  [wrapper |-> [wrapper EXCEPT
                        !.length         = bind.length,
                        !.buffer         = bind.buffer,
                        !.row_ptr        = bind.row_ptr,
                        !.buffer_length  = bind.buffer_length,
                        !.offset         = bind.offset,
                        !.length_value   = bind.length_value,
                        !.param_number   = bind.param_number,
                        !.pack_length    = bind.pack_length,
                        !.buffer_type    = bind.buffer_type,
                        !.error_value    = bind.error_value,
                        !.is_unsigned    = bind.is_unsigned,
                        !.long_data_used = bind.long_data_used,
                        !.is_null_value  = bind.is_null_value,
                        !.extension      = bind.extension],
         m     |-> m2,
         null  |-> \/ wrapper.is_null # NullPtr /\ bind.is_null = NullPtr
                   \/ wrapper.error # NullPtr /\ bind.error = NullPtr,
         undef |-> \/ wrapper.is_null # NullPtr /\ ~Determinate(m, bind.is_null)
                   \/ wrapper.error # NullPtr /\ ~Determinate(m1, bind.error)]

-----------------------------------------------------------------------------
(* The loops of the three marshaling calls and of the release call *)

\* the for loop of lines 140-146 (track, paramIndex = index) and of lines
\* 178-184 (allocPointers NULL, paramIndex 0), from iteration index on
RECURSIVE ForwardLoop(_, _, _, _, _, _, _)
ForwardLoop(m, ver, bind, newBind, allocPointers, index, op) ==
    IF index >= Len(bind)
    THEN [newBind |-> newBind, m |-> m, alloc |-> allocPointers]
    ELSE LET c == convert_to_MYSQL_BIND(m, ver, bind[index + 1], newBind[index + 1],
                      allocPointers, IF allocPointers.present THEN index ELSE 0, op)
         IN  ForwardLoop(c.m, ver, bind, [newBind EXCEPT ![index + 1] = c.bind],
                         c.alloc, index + 1, op)

\* the for loop of lines 150-156, 188-194 and 206-212, from iteration index on
RECURSIVE BackwardLoop(_, _, _, _, _, _, _)
BackwardLoop(m, ver, newBind, bind, index, u, seen) ==
    IF index >= Len(bind)
    THEN [bind |-> bind, m |-> m, null |-> seen.null, undef |-> seen.undef]
    ELSE LET c == convert_from_MYSQL_BIND(m, ver, newBind[index + 1], bind[index + 1], u)
         IN  BackwardLoop(c.m, ver, newBind, [bind EXCEPT ![index + 1] = c.wrapper],
                          index + 1, u,
                          [null |-> seen.null \/ c.null, undef |-> seen.undef \/ c.undef])

\* the outcomes of the reads a backward conversion cannot make: none when
\* every pointer it decodes can be read
Outcomes(m, ver, newBind, bind) ==
    IF BackwardLoop(m, ver, newBind, bind, 0, FALSE, [null |-> FALSE, undef |-> FALSE]).undef
    THEN BOOLEAN
    ELSE {FALSE}

\* the for loop of lines 318-326, from iteration index on
RECURSIVE ReleaseLoop(_, _, _, _)
ReleaseLoop(m, bindPtr, index, bindCount) ==
    IF index >= bindCount THEN m
    ELSE LET m1 == IF bindPtr[index + 1].is_null # NullPtr
                   THEN Free(m, bindPtr[index + 1].is_null, "release_statement_binds")
                   ELSE m
             m2 == IF bindPtr[index + 1].error # NullPtr
                   THEN Free(m1, bindPtr[index + 1].error, "release_statement_binds")
                   ELSE m1
         IN  ReleaseLoop(m2, bindPtr, index + 1, bindCount)

\* the for loop of lines 333-335, from iteration index on
RECURSIVE ParamsLoop(_, _, _, _)
ParamsLoop(m, allocatedParams, index, paramCount) ==
    IF index >= paramCount THEN m
    ELSE ParamsLoop(Free(m, allocatedParams[index + 1], "release_params"),
                    allocatedParams, index + 1, paramCount)

\* the body of wrapper_release_statement_binds(stmt, bindCount): the memory
\* after the call
ReleaseStatementBinds(m, ver, bindPtr, bindCount) ==
    IF ver < Cutover THEN ReleaseLoop(m, bindPtr, 0, bindCount) ELSE m

\* wrapper_release_params walking bindCount slots instead of bindCount * 2
M_ReleaseParams_HalfCount(m, allocatedParams, bindCount) ==
    ParamsLoop(m, allocatedParams, 0, bindCount)

\* the body of wrapper_release_params(allocatedParams, bindCount): the memory
\* after the call
ReleaseParams(m, allocatedParams, bindCount) ==
    ParamsLoop(m, allocatedParams, 0, bindCount * 2)

-----------------------------------------------------------------------------
(* The caller's descriptors *)

\* the scalar and pass-through fields a caller fills in: two fillings that
\* differ in every field, the first for the odd descriptors of an array and
\* the second for the even ones
Filling(i) == 2 - (i % 2)

Scalars(t) ==
    IF t = 1
    THEN [buffer_length |-> 8, offset |-> 0, length_value |-> 1, param_number |-> 2,
          pack_length |-> 3, buffer_type |-> 4, error_value |-> FALSE,
          is_unsigned |-> FALSE, long_data_used |-> FALSE, is_null_value |-> FALSE]
    ELSE [buffer_length |-> 64, offset |-> 16, length_value |-> 32, param_number |-> 5,
          pack_length |-> 6, buffer_type |-> 254, error_value |-> TRUE,
          is_unsigned |-> TRUE, long_data_used |-> TRUE, is_null_value |-> TRUE]

\* WRAPPER_MYSQL_BIND number i of array arr ("p" or "r"), with or without
\* is_null and error references
StableDesc(arr, i, hasNull, hasErr, t) ==
    LET sc == Scalars(t)
    IN  [length           |-> Opaque(i, arr \o ".length"),
         is_null          |-> IF hasNull THEN CallerCell(i, arr \o ".is_null") ELSE NullPtr,
         buffer           |-> Opaque(i, arr \o ".buffer"),
         error            |-> IF hasErr THEN CallerCell(i, arr \o ".error") ELSE NullPtr,
         row_ptr          |-> Opaque(i, arr \o ".row_ptr"),
         store_param_func |-> Opaque(i, arr \o ".store_param_func"),
         fetch_result     |-> Opaque(i, arr \o ".fetch_result"),
         skip_result      |-> Opaque(i, arr \o ".skip_result"),
         buffer_length    |-> sc.buffer_length,
         offset           |-> sc.offset,
         length_value     |-> sc.length_value,
         param_number     |-> sc.param_number,
         pack_length      |-> sc.pack_length,
         buffer_type      |-> sc.buffer_type,
         error_value      |-> sc.error_value,
         is_unsigned      |-> sc.is_unsigned,
         long_data_used   |-> sc.long_data_used,
         is_null_value    |-> sc.is_null_value,
         extension        |-> Opaque(i, arr \o ".extension")]

\* the descriptor arrays of length n a caller may hand over: every
\* combination of present and absent references
StableSeqs(arr, n) ==
    {[i \in 1..n |-> StableDesc(arr, i, hn[i], he[i], Filling(i))] :
        hn \in [1..n -> BOOLEAN], he \in [1..n -> BOOLEAN]}

Memory == [heap |-> heap, caller |-> callerMem, bad |-> badFrees]

harness == <<orig, stable, native, phys, decoded>>

-----------------------------------------------------------------------------
(* The native primitives, as far as the wrapper depends on them *)

\* the statuses mysql_stmt_fetch returns: 0, 1, MYSQL_NO_DATA,
\* MYSQL_DATA_TRUNCATED
FetchStatuses == {0, 1, 100, 101}

\* the statuses that come with a row
RowStatuses == {0, 101}

\* the rows mysql_stmt_fetch may deliver, as the null flag of each column:
\* no column NULL, every column NULL, every other column NULL
Rows(n) ==
    {[i \in 1..n |-> b] : b \in BOOLEAN} \cup {[i \in 1..n |-> i % 2 = 1]}

\* the address of field f (is_null_value, error_value) of stmt->bind[i]
NativeField(i, f) == [k |-> "native", i |-> i, f |-> f]

\* stmt->bind after a successful mysql_stmt_bind_result(stmt, newBind): a
\* copy of newBind.  is_null_value and error_value are "used if is_null /
\* error is 0": the library keeps an absent reference NULL and skips it at
\* every store, or (redirect) points it at the descriptor's own field once.
NativeRetain(newBind, redirect) ==
    [i \in DOMAIN newBind |->
        IF redirect
        THEN [newBind[i] EXCEPT
                !.is_null = IF @ = NullPtr THEN NativeField(i, "is_null_value") ELSE @,
                !.error   = IF @ = NullPtr THEN NativeField(i, "error_value") ELSE @]
        ELSE newBind[i]]

\* the native library storing flag b for field (is_null, error) of column i,
\* on st = [m, binds]: a 1-byte flag in a shadow cell, a bool in the caller's
\* cell, the descriptor's own field when the reference points there, and
\* nothing when the reference is NULL
NativeStore(st, i, field, b) ==
    LET p == st.binds[i][field]
    IN  IF p = NullPtr THEN st
        ELSE IF p.k = "heap"
             THEN [st EXCEPT !.m.heap = StoreByte(@, p, IF b THEN 1 ELSE 0)]
             ELSE IF p.k = "caller"
                  THEN [st EXCEPT !.m.caller[p] = b]
                  ELSE [st EXCEPT !.binds[i][field \o "_value"] = b]

\* mysql_stmt_fetch(stmt) storing the row (nulls, trunc) through stmt->bind,
\* from column index on
RECURSIVE NativeFetch(_, _, _, _)
NativeFetch(st, nulls, trunc, index) ==
    IF index >= Len(st.binds) THEN st
    ELSE NativeFetch(NativeStore(NativeStore(st, index + 1, "is_null", nulls[index + 1]),
                                 index + 1, "error", trunc),
                     nulls, trunc, index + 1)

\* return result; of wrapper_mysql_stmt_bind_result
BindResultReturn(result) == result

\* wrapper_mysql_stmt_fetch returning its status through a bool, as
\* wrapper_mysql_stmt_bind_result does
M_FetchReturn_Bool(result) == IF result = 0 THEN 0 ELSE 1

\* return result; of wrapper_mysql_stmt_fetch
FetchReturn(result) == result

-----------------------------------------------------------------------------
(* The calls, in the order the caller issues them *)

Init ==
    /\ pc = "init"
    /\ version \in Versions
    /\ numParams = 0
    /\ numFields = 0
    /\ paramBinds = <<>>
    /\ resultBinds = <<>>
    /\ callerMem = [c \in CallerCells |-> FALSE]
    /\ heap = <<>>
    /\ badFrees = {}
    /\ stmtBind = <<>>
    /\ bound = FALSE
    /\ allocRecord = NoRecord
    /\ ret = [op |-> "wrapper_mysql_stmt_init", status |-> <<>>]
    /\ nativeRet = 0
    /\ nullDeref = FALSE
    /\ boundAs = <<>>
    /\ orig = ZeroBind
    /\ stable = ZeroBind
    /\ native = ZeroBind
    /\ phys = NullPtr
    /\ decoded = FALSE

\* int wrapper_mysql_stmt_prepare(stmt, stmt_str, length), of a statement
\* with at most maxParams parameters and maxFields columns
Prepare(maxParams, maxFields) ==
    /\ pc = "init"
    /\ \E st \in {0, 1}, np \in 0..maxParams, nf \in 0..maxFields :
          /\ nativeRet' = st
          /\ ret' = [op |-> "wrapper_mysql_stmt_prepare", status |-> <<st>>]
          /\ IF st = 0
             THEN pc' = "prepared" /\ numParams' = np /\ numFields' = nf
             ELSE pc' = "prepare_failed" /\ UNCHANGED <<numParams, numFields>>
    /\ UNCHANGED <<version, paramBinds, resultBinds, callerMem, heap, badFrees,
                   stmtBind, bound, allocRecord, nullDeref, boundAs, harness>>

wrapper_mysql_stmt_prepare == Prepare(MaxParams, MaxBinds)

\* char **wrapper_mysql_stmt_bind_param(stmt, bind, bindCount)
wrapper_mysql_stmt_bind_param ==
    /\ pc = "prepared"
    /\ \E bind \in StableSeqs("p", numParams), result \in {0, 1} :
          LET bindCount     == numParams
              allocCount    == bindCount * 2
              \* the caller's null indicators on entry: the even
              \* parameters are NULL
              m0            == [Memory EXCEPT !.caller =
                                  [c \in CallerCells |->
                                      IF c.f = "p.is_null" THEN Filling(c.i) = 2 ELSE @[c]]]
              m1            == [m0 EXCEPT !.heap = CallocRecord(@, "bind_param")]
              allocPointers == [present |-> TRUE, at |-> HeapPtr(Len(m1.heap)),
                                slots |-> [j \in 1..allocCount |-> NullPtr]]
          IN  \E fwd \in {ForwardLoop(m1, version, bind,
                                       [i \in 1..bindCount |-> ZeroBind],
                                       allocPointers, 0, "bind_param")} :
              \E u \in Outcomes(fwd.m, version, fwd.newBind, bind) :
              \E bwd \in {BackwardLoop(fwd.m, version, fwd.newBind, bind, 0, u,
                                      [null |-> FALSE, undef |-> FALSE])} :
                  /\ nativeRet' = result
                  /\ paramBinds' = bwd.bind
                  /\ heap' = bwd.m.heap
                  /\ callerMem' = bwd.m.caller
                  /\ badFrees' = bwd.m.bad
                  /\ nullDeref' = (nullDeref \/ bwd.null)
                  /\ allocRecord' = fwd.alloc
                  /\ ret' = [op |-> "wrapper_mysql_stmt_bind_param", status |-> <<>>]
    /\ pc' = "params_bound"
    /\ UNCHANGED <<version, numParams, numFields, resultBinds, stmtBind, bound,
                   boundAs, harness>>

\* int wrapper_mysql_stmt_execute(stmt)
wrapper_mysql_stmt_execute ==
    /\ pc = "params_bound"
    /\ \E st \in {0, 1} :
          /\ nativeRet' = st
          /\ ret' = [op |-> "wrapper_mysql_stmt_execute", status |-> <<st>>]
          /\ pc' = IF st = 0 THEN "executed" ELSE "execute_failed"
    /\ UNCHANGED <<version, numParams, numFields, paramBinds, resultBinds, callerMem,
                   heap, badFrees, stmtBind, bound, allocRecord, nullDeref, boundAs, harness>>

\* bool wrapper_mysql_stmt_bind_result(stmt, bind, bindCount)
wrapper_mysql_stmt_bind_result ==
    /\ pc = "executed"
    /\ \E bind \in StableSeqs("r", numFields), result \in {0, 1}, redirect \in BOOLEAN :
          LET bindCount == numFields
          IN  \E fwd \in {ForwardLoop(Memory, version, bind,
                                       [i \in 1..bindCount |-> ZeroBind],
                                       NoRecord, 0, "bind_result")} :
              \E u \in Outcomes(fwd.m, version, fwd.newBind, bind) :
              \E bwd \in {BackwardLoop(fwd.m, version, fwd.newBind, bind, 0, u,
                                      [null |-> FALSE, undef |-> FALSE])} :
                  /\ nativeRet' = result
                  \* mysql_stmt_bind_result keeps the array when it succeeds
                  /\ stmtBind' = IF result = 0 THEN NativeRetain(fwd.newBind, redirect)
                                 ELSE stmtBind
                  /\ bound' = (result = 0)
                  /\ boundAs' = bind
                  /\ resultBinds' = bwd.bind
                  /\ heap' = bwd.m.heap
                  /\ callerMem' = bwd.m.caller
                  /\ badFrees' = bwd.m.bad
                  /\ nullDeref' = (nullDeref \/ bwd.null)
                  /\ ret' = [op |-> "wrapper_mysql_stmt_bind_result",
                              status |-> <<BindResultReturn(result)>>]
                  /\ pc' = IF result = 0 THEN "results_bound" ELSE "bind_result_failed"
    /\ UNCHANGED <<version, numParams, numFields, paramBinds, allocRecord, harness>>

\* int wrapper_mysql_stmt_fetch(stmt, binds, bindCount)
wrapper_mysql_stmt_fetch ==
    /\ pc \in {"results_bound", "fetched"}
    /\ \E result \in FetchStatuses :
       \E nulls \in IF result \in RowStatuses THEN Rows(numFields) ELSE {<<>>} :
          LET trunc   == result = 101
              before  == [m |-> Memory, binds |-> stmtBind]
          IN  \E after \in {IF result \in RowStatuses
                             THEN NativeFetch(before, nulls, trunc, 0)
                             ELSE before} :
              \E u \in Outcomes(after.m, version, after.binds, resultBinds) :
              \E bwd \in {BackwardLoop(after.m, version, after.binds, resultBinds, 0, u,
                                      [null |-> FALSE, undef |-> FALSE])} :
                  /\ nativeRet' = result
                  /\ stmtBind' = after.binds
                  /\ resultBinds' = bwd.bind
                  /\ heap' = bwd.m.heap
                  /\ callerMem' = bwd.m.caller
                  /\ badFrees' = bwd.m.bad
                  /\ nullDeref' = (nullDeref \/ bwd.null)
                  /\ ret' = [op |-> "wrapper_mysql_stmt_fetch",
                              status |-> <<FetchReturn(result)>>]
    /\ pc' = "fetched"
    /\ UNCHANGED <<version, numParams, numFields, paramBinds, bound, allocRecord,
                   boundAs, harness>>

\* void wrapper_release_params(allocatedParams, bindCount)
wrapper_release_params ==
    /\ \/ pc \in {"execute_failed", "bind_result_failed", "results_bound", "fetched"}
       \/ pc = "executed" /\ numFields = 0
    /\ LET m == ReleaseParams(Memory, allocRecord.slots, numParams)
       IN  /\ heap' = m.heap
           /\ callerMem' = m.caller
           /\ badFrees' = m.bad
    /\ ret' = [op |-> "wrapper_release_params", status |-> <<>>]
    /\ pc' = "params_released"
    /\ UNCHANGED <<version, numParams, numFields, paramBinds, resultBinds, stmtBind,
                   bound, allocRecord, nativeRet, nullDeref, boundAs, harness>>

\* void wrapper_release_statement_binds(stmt, bindCount)
wrapper_release_statement_binds ==
    /\ pc = "params_released"
    /\ bound
    /\ LET m == ReleaseStatementBinds(Memory, version, stmtBind, numFields)
       IN  /\ heap' = m.heap
           /\ callerMem' = m.caller
           /\ badFrees' = m.bad
    /\ ret' = [op |-> "wrapper_release_statement_binds", status |-> <<>>]
    /\ pc' = "binds_released"
    /\ UNCHANGED <<version, numParams, numFields, paramBinds, resultBinds, stmtBind,
                   bound, allocRecord, nativeRet, nullDeref, boundAs, harness>>

\* bool wrapper_mysql_stmt_close(stmt)
wrapper_mysql_stmt_close ==
    /\ \/ pc \in {"prepare_failed", "binds_released"}
       \/ pc = "params_released" /\ ~bound
    /\ \E st \in {0, 1} :
          /\ nativeRet' = st
          /\ ret' = [op |-> "wrapper_mysql_stmt_close", status |-> <<st>>]
    /\ pc' = "closed"
    /\ UNCHANGED <<version, numParams, numFields, paramBinds, resultBinds, callerMem,
                   heap, badFrees, stmtBind, bound, allocRecord, nullDeref, boundAs, harness>>

Next ==
    \/ wrapper_mysql_stmt_prepare
    \/ wrapper_mysql_stmt_bind_param
    \/ wrapper_mysql_stmt_execute
    \/ wrapper_mysql_stmt_bind_result
    \/ wrapper_mysql_stmt_fetch
    \/ wrapper_release_params
    \/ wrapper_release_statement_binds
    \/ wrapper_mysql_stmt_close

Spec == Init /\ [][Next]_vars

-----------------------------------------------------------------------------
(* The parameter path on its own: a statement without result columns, with *)
(* up to MaxBinds parameters                                               *)

PrepareNoColumns == Prepare(MaxBinds, 0)

NextParam ==
    \/ PrepareNoColumns
    \/ wrapper_mysql_stmt_bind_param
    \/ wrapper_mysql_stmt_execute
    \/ wrapper_release_params
    \/ wrapper_mysql_stmt_close

SpecParam == Init /\ [][NextParam]_vars

-----------------------------------------------------------------------------
(* The codec and the two conversions on their own: one descriptor drawn    *)
(* from bounded sets, encoded and decoded, or converted forward and back   *)
(* with no native call in between                                          *)

\* server versions far from and next to the test
AllVersions == {0, 50744, Cutover - 1, Cutover, Cutover + 21}

\* one WRAPPER_MYSQL_BIND: every pointer present or absent, either filling
\* of the unsigned fields, every combination of the four bool fields
ConvDescs ==
    {[StableDesc("p", 1, hn, he, t) EXCEPT
         !.length         = IF hl THEN @ ELSE NullPtr,
         !.buffer         = IF hb THEN @ ELSE NullPtr,
         !.row_ptr        = IF hr THEN @ ELSE NullPtr,
         !.extension      = IF hx THEN @ ELSE NullPtr,
         !.error_value    = b[1],
         !.is_unsigned    = b[2],
         !.long_data_used = b[3],
         !.is_null_value  = b[4]] :
       hn \in BOOLEAN, he \in BOOLEAN, t \in {1, 2}, hl \in BOOLEAN, hb \in BOOLEAN,
       hr \in BOOLEAN, hx \in BOOLEAN, b \in [1..4 -> BOOLEAN]}

InitConv ==
    /\ pc = "start"
    /\ version \in AllVersions
    /\ stable \in ConvDescs
    /\ orig = stable
    /\ \E isNull \in BOOLEAN, err \in BOOLEAN :
          callerMem = [c \in CallerCells |->
                          IF c = stable.is_null THEN isNull
                          ELSE IF c = stable.error THEN err ELSE FALSE]
    /\ native = ZeroBind
    /\ phys = NullPtr
    /\ decoded = FALSE
    /\ heap = <<>>
    /\ badFrees = {}
    /\ nullDeref = FALSE
    /\ numParams = 0
    /\ numFields = 0
    /\ paramBinds = <<>>
    /\ resultBinds = <<>>
    /\ stmtBind = <<>>
    /\ bound = FALSE
    /\ allocRecord = NoRecord
    /\ ret = [op |-> "none", status |-> <<>>]
    /\ nativeRet = 0
    /\ boundAs = <<>>

sequence == <<numParams, numFields, paramBinds, resultBinds, stmtBind, bound,
              allocRecord, ret, nativeRet, boundAs, version, orig, badFrees>>

\* phys = convertFromBool(mysql, stable.is_null)
Encode ==
    /\ pc = "start"
    /\ LET r == convertFromBool(Memory, version, stable.is_null, "codec")
       IN  /\ phys' = r.ptr
           /\ heap' = r.m.heap
           /\ callerMem' = r.m.caller
    /\ pc' = "encoded"
    /\ UNCHANGED <<sequence, stable, native, decoded, nullDeref>>

\* decoded = convertToBool(mysql, phys)
Decode ==
    /\ pc = "encoded"
    /\ \E u \in IF Determinate(Memory, phys) THEN {FALSE} ELSE BOOLEAN :
          decoded' = convertToBool(Memory, version, phys, u)
    /\ nullDeref' = (nullDeref \/ phys = NullPtr)
    /\ pc' = "decoded"
    /\ UNCHANGED <<sequence, stable, native, phys, heap, callerMem>>

\* convert_to_MYSQL_BIND(mysql, &stable, &native, NULL, 0) on a calloc'ed native
Forward ==
    /\ pc = "start"
    /\ LET c == convert_to_MYSQL_BIND(Memory, version, stable, ZeroBind, NoRecord, 0,
                                      "convert")
       IN  /\ native' = c.bind
           /\ heap' = c.m.heap
           /\ callerMem' = c.m.caller
    /\ pc' = "forwarded"
    /\ UNCHANGED <<sequence, stable, phys, decoded, nullDeref>>

\* convert_from_MYSQL_BIND(mysql, &native, &stable)
Backward ==
    /\ pc = "forwarded"
    /\ \E u \in IF convert_from_MYSQL_BIND(Memory, version, native, stable, FALSE).undef
                THEN BOOLEAN ELSE {FALSE} :
          LET c == convert_from_MYSQL_BIND(Memory, version, native, stable, u)
          IN  /\ stable' = c.wrapper
              /\ heap' = c.m.heap
              /\ callerMem' = c.m.caller
              /\ nullDeref' = (nullDeref \/ c.null)
    /\ pc' = "converted"
    /\ UNCHANGED <<sequence, native, phys, decoded>>

NextConv == Encode \/ Decode \/ Forward \/ Backward

SpecConv == InitConv /\ [][NextConv]_vars

-----------------------------------------------------------------------------
(* Claims *)

Range(q) == {q[j] : j \in DOMAIN q}

\* the flag a native is_null / error pointer holds: the legacy byte of a
\* shadow cell, or the caller's bool
PhysTrue(p) == IF p.k = "heap" THEN heap[p.i].val = 1 ELSE callerMem[p]

\* slot is the shadow cell made for reference ref, or NULL when ref is absent
ShadowOf(slot, ref) ==
    IF ref = NullPtr THEN slot = NullPtr
    ELSE /\ slot.k = "heap"
         /\ heap[slot.i].kind = "cell"
         /\ heap[slot.i].by = "bind_param"
         /\ heap[slot.i].for = ref

\* C1: once the call sequence has run to close, every 1-byte cell the layer
\* malloc'ed has been freed exactly once, and free was never called on
\* anything that is not a heap block.
C1_EveryCellFreedExactlyOnce ==
    pc = "closed" =>
        /\ \A n \in DOMAIN heap : heap[n].kind = "cell" => Len(heap[n].freedBy) = 1
        /\ badFrees = {}

\* C2: past the cutover bind_param allocates no 1-byte cell, whatever
\* references its descriptors carry.
C2_NoCellPastCutover ==
    (allocRecord.present /\ version >= Cutover) =>
        \A n \in DOMAIN heap : ~(heap[n].kind = "cell" /\ heap[n].by = "bind_param")

\* C3: before the cutover the record bind_param returns has 2N slots, slot
\* 2i (2i+1) being the shadow cell of descriptor i's is_null (error) reference
\* and NULL exactly when that reference is absent; release_params frees each
\* non-null slot once and nothing else.
C3_AllocationSymmetry ==
    (allocRecord.present /\ version < Cutover) =>
        /\ Len(allocRecord.slots) = 2 * numParams
        /\ \A i \in 1..numParams :
              /\ ShadowOf(allocRecord.slots[(2 * (i - 1)) + 1], paramBinds[i].is_null)
              /\ ShadowOf(allocRecord.slots[(2 * (i - 1)) + 2], paramBinds[i].error)
        /\ \A n \in DOMAIN heap :
              IF HeapPtr(n) \in Range(allocRecord.slots)
              THEN heap[n].freedBy = IF pc \in {"params_released", "binds_released", "closed"}
                                     THEN <<"release_params">> ELSE <<>>
              ELSE "release_params" \notin Range(heap[n].freedBy)
        /\ \A b \in badFrees : b.by # "release_params"

C3_Witness ==
    /\ pc = "params_released"
    /\ version < Cutover
    /\ numParams = 2
    /\ paramBinds[1].is_null # NullPtr
    /\ paramBinds[1].error = NullPtr
    /\ paramBinds[2].error # NullPtr
    /\ heap[allocRecord.slots[4].i].freedBy = <<"release_params">>

\* C4: when the native parameter bind fails, what bind_param returns carries
\* the failure, next to the allocation record.
C4_BindParamFailurePropagated ==
    ret.op = "wrapper_mysql_stmt_bind_param" =>
        /\ allocRecord.present
        /\ nativeRet # 0 => (ret.status # <<>> /\ ret.status[1] # 0)

\* C5: decoding what encode made of a reference to b gives b, on either side
\* of the cutover.
C5_CodecRoundTrip ==
    (pc = "decoded" /\ orig.is_null # NullPtr) => decoded = callerMem[orig.is_null]

C5_Witness ==
    /\ pc = "decoded"
    /\ orig.is_null # NullPtr
    /\ version < Cutover
    /\ callerMem[orig.is_null]
    /\ decoded

ScalarFields ==
    {"length", "buffer", "row_ptr", "buffer_length", "offset", "length_value",
     "param_number", "pack_length", "buffer_type", "error_value", "is_unsigned",
     "long_data_used", "is_null_value", "extension"}

\* C6: for a descriptor without is_null and error references, the forward
\* conversion followed by the backward conversion leaves every scalar and
\* pass-through field as it was.
C6_ConversionFidelity ==
    (pc = "converted" /\ orig.is_null = NullPtr /\ orig.error = NullPtr) =>
        \A f \in ScalarFields : stable[f] = orig[f]

C6_Witness ==
    /\ pc = "converted"
    /\ orig.is_null = NullPtr
    /\ orig.error = NullPtr
    /\ orig.buffer_length = 64
    /\ orig.offset = 16
    /\ orig.is_unsigned
    /\ ~orig.error_value
    /\ orig.extension # NullPtr
    /\ orig.length = NullPtr

C8_StatusPassThrough ==
    ret.op \in {"wrapper_mysql_stmt_bind_result", "wrapper_mysql_stmt_fetch"} =>
        ret.status = <<nativeRet>>

C8_Witness ==
    /\ ret.op = "wrapper_mysql_stmt_fetch"
    /\ nativeRet = 101
    /\ version < Cutover
    /\ numFields = 2
    /\ resultBinds[2].error # NullPtr
    /\ callerMem[resultBinds[2].error]

\* C9: release_statement_binds frees only before the cutover, and only
\* shadow cells that bind_result allocated and nothing has freed before:
\* never a caller's bool, never a cell of the bind_param record.
C9_ReleaseFreesOnlyResultShadows ==
    /\ \A n \in DOMAIN heap :
          "release_statement_binds" \in Range(heap[n].freedBy) =>
              /\ version < Cutover
              /\ heap[n].kind = "cell"
              /\ heap[n].by = "bind_result"
              /\ heap[n].freedBy = <<"release_statement_binds">>
              /\ HeapPtr(n) \notin Range(allocRecord.slots)
    /\ \A b \in badFrees : b.by # "release_statement_binds"

\* C10: no backward conversion of bind_param, bind_result or fetch hands
\* convertToBool a NULL pointer.
C10_DecodeNeverNull == ~nullDeref

C10_Witness ==
    /\ pc = "fetched"
    /\ version >= Cutover
    /\ numParams = 1
    /\ paramBinds[1].is_null # NullPtr
    /\ paramBinds[1].error # NullPtr
    /\ numFields = 2
    /\ resultBinds[1].is_null # NullPtr
    /\ resultBinds[2].error # NullPtr
    /\ resultBinds[2].is_null = NullPtr

====
